---- MODULE Spec2Model ----
(***************************************************************************)
(* Model of the stencil extraction pipeline of stenciltool (src/main.rs):  *)
(* read_elf (symbol classification, relocation mapping),                   *)
(* trim_trailing_jmp and populate_stencil_holes, as called by main.        *)
(***************************************************************************)
EXTENDS Integers, Sequences, FiniteSets, TLC

(***************************************************************************)
(* Bounds of the explored input space.                                     *)
(***************************************************************************)
MaxSyms == 3            \* symbol table length, pipeline inputs
MaxRelocs == 3          \* relocation records, pipeline inputs
MaxOffset == 1          \* largest r_offset of a relocation record
MaxPatched == 2         \* positions of the jump pattern that get altered
DataLen == 6            \* length of the input buffer
MaxClassifySyms == 2    \* symbol table length, classification inputs
MaxTextOffset == 1      \* largest sh_offset of .text, classification inputs

(***************************************************************************)
(* Option<T> : None is the empty sequence, Some(x) the sequence <<x>>.     *)
(***************************************************************************)
None == << >>
Some(x) == << x >>

(***************************************************************************)
(* Constants of the program.                                               *)
(***************************************************************************)
STB_GLOBAL == "STB_GLOBAL"
STB_LOCAL == "STB_LOCAL"
STT_FUNC == "STT_FUNC"
STT_NOTYPE == "STT_NOTYPE"
STT_OBJECT == "STT_OBJECT"

JmpPattern == << 233, 0, 0, 0, 0 >>     \* [0xe9,0,0,0,0]

\* elf::reloc::r_to_str(r_type, EM_X86_64) on the relocation types used
r_to_str(r_type) ==
    CASE r_type = 1 -> "R_X86_64_64"
      [] r_type = 2 -> "R_X86_64_PC32"
      [] r_type = 4 -> "R_X86_64_PLT32"
      [] OTHER -> "R_*_UNKNOWN"

\* str::starts_with
starts_with(s, p) == Len(s) >= Len(p) /\ SubSeq(s, 1, Len(p)) = p

(***************************************************************************)
(* The input: a parsed object file.                                        *)
(*   parse       "elf" | "other" (parsed, not ELF) | "error" (parse fails) *)
(*   has_text    a section header named .text exists                       *)
(*   sh_offset   file offset of .text                                      *)
(*   data        the file buffer, a sequence of bytes                      *)
(*   syms        symbol table; name is the strtab lookup, an Option        *)
(*   has_relocs  a relocation section with index text_index+1 exists       *)
(*   is_rela     the relocation records carry an explicit addend           *)
(*   relocs      records of that relocation section                        *)
(***************************************************************************)
Pad(n) == [i \in 1..n |-> 144]

Tails == {JmpPattern} \cup {[JmpPattern EXCEPT ![k] = 1] : k \in 1..MaxPatched}

DataChoices == {t \o Pad(DataLen - 5) : t \in Tails}

Sym(bind, type, name, value, size) ==
    [st_bind |-> bind, st_type |-> type, name |-> name,
     st_value |-> value, st_size |-> size]

SeqsUpTo(S, n) == UNION {[1..k -> S] : k \in 0..n}

RelocRecords(types) ==
    [r_offset : 0..MaxOffset, r_sym : 0..(MaxSyms - 1), r_type : types]

\* Inputs that exercise relocation mapping and the two transforms.
PipelineSyms ==
    { Sym(STB_GLOBAL, STT_NOTYPE, Some("cnp_stencil_output"), 0, 0),
      Sym(STB_GLOBAL, STT_NOTYPE, Some("bar"), 0, 0),
      Sym(STB_GLOBAL, STT_FUNC, Some("foo"), 0, 5),
      Sym(STB_GLOBAL, STT_FUNC, Some("baz"), 1, 4) }

PipelineInputs ==
    [parse : {"elf"}, has_text : {TRUE}, sh_offset : {0},
     data : DataChoices,
     syms : SeqsUpTo(PipelineSyms, MaxSyms),
     has_relocs : {TRUE}, is_rela : {TRUE},
     relocs : SeqsUpTo(RelocRecords({2}), MaxRelocs)]

\* Inputs with a function shorter than the 4 bytes of a jump displacement.
ShortStencilInputs ==
    [parse : {"elf"}, has_text : {TRUE}, sh_offset : {0},
     data : {JmpPattern \o Pad(DataLen - 5)},
     syms : {<< Sym(STB_GLOBAL, STT_NOTYPE, Some("cnp_stencil_output"), 0, 0),
                Sym(STB_GLOBAL, STT_FUNC, Some("qux"), 0, 3) >>},
     has_relocs : {TRUE}, is_rela : {TRUE},
     relocs : SeqsUpTo(RelocRecords({2}), MaxRelocs)]

\* Inputs that exercise the loader and the symbol classification.
Names ==
    { "cnp_large_value_hole", "cnp_large_value_hole_1",
      "cnp_small_value_hole", "cnp_small_value_hole_a",
      "cnp_near_func_hole", "cnp_near_func_hole_f",
      "cnp_far_fun_hole", "cnp_far_fun_hole_g", "cnp_far_func_hole",
      "cnp_stencil_output", "cnp_stencil_output_x", "cnp_stencil_outpu",
      "x_cnp_large_value_hole", "cnp_", "bar", "" }

ClassifySyms ==
    { Sym(STB_LOCAL, STT_NOTYPE, Some(n), 0, 0) : n \in Names }
    \cup { Sym(b, t, n, 0, 0) :
             b \in {STB_GLOBAL, STB_LOCAL}, t \in {STT_FUNC, STT_OBJECT},
             n \in {Some("bar"), Some("cnp_stencil_output"), None} }
    \cup { Sym(STB_GLOBAL, STT_FUNC, Some("foo"), v, s) :
             v \in 0..1, s \in {0, DataLen - 1, DataLen} }

ClassifyInputs ==
    [parse : {"elf"}, has_text : {TRUE}, sh_offset : 0..MaxTextOffset,
     data : {JmpPattern \o Pad(DataLen - 5)},
     syms : SeqsUpTo(ClassifySyms, MaxClassifySyms),
     has_relocs : {TRUE}, is_rela : {TRUE},
     relocs : {<< >>}]

\* Inputs on which the loader may stop before or after the symbol loop, and
\* relocation sections with and without explicit addends.
LoaderInputs ==
    [parse : {"elf", "other", "error"}, has_text : BOOLEAN, sh_offset : {0},
     data : {JmpPattern \o Pad(DataLen - 5)},
     syms : {<< >>,
             << Sym(STB_LOCAL, STT_NOTYPE, None, 0, 0) >>,
             << Sym(STB_GLOBAL, STT_NOTYPE, Some("bar"), 0, 0),
                Sym(STB_GLOBAL, STT_FUNC, Some("foo"), 0, 5) >>},
     has_relocs : BOOLEAN, is_rela : BOOLEAN,
     relocs : SeqsUpTo([r_offset : {0}, r_sym : {0}, r_type : {1, 2, 4}], 1)]

VARIABLES
    elf,        \* the input object (never changes)
    pc,         \* position in main
    outcome,    \* "running" | "Err" (returned Result::Err) | "panic"
    error,      \* message of the error or panic
    holes,      \* main's holes registry: Vec<Hole>
    stencils    \* main's stencil list: Vec<Stencil>

vars == << elf, pc, outcome, error, holes, stencils >>

(***************************************************************************)
(* read_elf, first loop: symbol classification.                            *)
(***************************************************************************)
\* variant: the sentinel name is matched as a prefix
datatype_opt_sentinel_prefix(name) ==
    IF starts_with(name, "cnp_large_value_hole") THEN Some("uint64_t")
    ELSE IF starts_with(name, "cnp_small_value_hole") THEN Some("uint32_t")
    ELSE IF starts_with(name, "cnp_near_func_hole") THEN Some("uint32_t")
    ELSE IF starts_with(name, "cnp_far_fun_hole") THEN Some("void*")
    ELSE IF starts_with(name, "cnp_stencil_output") THEN Some("uint32_t")
    ELSE None

datatype_opt(name) ==
    IF starts_with(name, "cnp_large_value_hole") THEN Some("uint64_t")
    ELSE IF starts_with(name, "cnp_small_value_hole") THEN Some("uint32_t")
    ELSE IF starts_with(name, "cnp_near_func_hole") THEN Some("uint32_t")
    ELSE IF starts_with(name, "cnp_far_fun_hole") THEN Some("void*")
    ELSE IF name = "cnp_stencil_output" THEN Some("uint32_t")
    ELSE None

Hole(name, index) ==
    LET d == datatype_opt(name) IN
    IF d # None
    THEN [name |-> name, index |-> index, datatype |-> d[1], internal |-> TRUE]
    ELSE [name |-> name, index |-> index, datatype |-> "void*", internal |-> FALSE]

\* variant: && in place of ||
is_hole_symbol_both(symbol) ==
    symbol.st_bind # STB_GLOBAL /\ symbol.st_type # STT_FUNC

is_hole_symbol(symbol) ==
    symbol.st_bind # STB_GLOBAL \/ symbol.st_type # STT_FUNC

\* &data[start .. start + size] : None when the index panics
slice(data, start, end) ==
    IF start > end \/ end > Len(data) THEN None
    ELSE Some(SubSeq(data, start + 1, end))

Stencil(symbol, name, code) ==
    [name |-> name, address |-> symbol.st_value, size |-> symbol.st_size,
     code |-> code, relocs |-> << >>, holes |-> << >>]

Result(o, msg, hs, ss) ==
    [outcome |-> o, error |-> msg, holes |-> hs, stencils |-> ss]

\* index is the 0-based position of enumerate()
RECURSIVE classify(_, _, _, _)
classify(e, index, hs, ss) ==
    IF index >= Len(e.syms) THEN Result("running", "", hs, ss)
    ELSE
      LET symbol == e.syms[index + 1] IN
      \* both branches start with the strtab lookup and its ?
      IF symbol.name = None
      THEN Result("Err", "symbol missing in strtab", hs, ss)
      ELSE
        LET name == symbol.name[1] IN
        IF is_hole_symbol(symbol)
        THEN classify(e, index + 1, Append(hs, Hole(name, index)), ss)
        ELSE
          LET start == e.sh_offset + symbol.st_value
              size == symbol.st_size
              code == slice(e.data, start, start + size)
          IN IF code = None
             THEN Result("panic", "range end index out of range for slice", hs, ss)
             ELSE classify(e, index + 1, hs, Append(ss, Stencil(symbol, name, code[1])))

read_elf_symbols(e) ==
    IF e.parse = "error" THEN Result("Err", "parse error", << >>, << >>)
    ELSE IF e.parse # "elf" THEN Result("panic", "object file is not elf", << >>, << >>)
    ELSE IF ~e.has_text THEN Result("panic", "No .text segment", << >>, << >>)
    ELSE classify(e, 0, << >>, << >>)

(***************************************************************************)
(* read_elf, second loop: relocation mapping.                              *)
(***************************************************************************)
\* (s.address..s.address+s.size).contains(&r_offset)
contains(s, r_offset) == s.address <= r_offset /\ r_offset < s.address + s.size

\* stencils.iter_mut().find(..): position of the first match, 0 when none
find_stencil(ss, r_offset) ==
    LET hits == {i \in 1..Len(ss) : contains(ss[i], r_offset)} IN
    IF hits = {} THEN 0 ELSE CHOOSE i \in hits : \A j \in hits : i <= j

\* holes.iter().find(|h| h.index == r_sym)
find_hole(hs, r_sym) ==
    LET hits == {i \in 1..Len(hs) : hs[i].index = r_sym} IN
    IF hits = {} THEN None
    ELSE Some(hs[CHOOSE i \in hits : \A j \in hits : i <= j])

r_addend(e) == IF e.is_rela THEN Some(-4) ELSE None

unwrap_or(opt, default) == IF opt = None THEN default ELSE opt[1]

\* variant: the offset stays relative to the section
Reloc_section_offset(e, reloc, stencil, hole) ==
    [offset |-> reloc.r_offset,
     addend |-> unwrap_or(r_addend(e), 0),
     hole |-> hole,
     relocation |-> r_to_str(reloc.r_type)]

Reloc(e, reloc, stencil, hole) ==
    [offset |-> reloc.r_offset - stencil.address,
     addend |-> unwrap_or(r_addend(e), 0),
     hole |-> hole,
     relocation |-> r_to_str(reloc.r_type)]

RECURSIVE map_relocs(_, _, _, _)
map_relocs(e, k, hs, ss) ==
    IF k > Len(e.relocs) THEN Result("running", "", hs, ss)
    ELSE
      LET reloc == e.relocs[k]
          pos == find_stencil(ss, reloc.r_offset)
      IN IF pos = 0 THEN map_relocs(e, k + 1, hs, ss)
         ELSE
           LET hole == find_hole(hs, reloc.r_sym) IN
           IF hole = None
           THEN Result("panic", "called Option::unwrap() on a None value", hs, ss)
           ELSE map_relocs(e, k + 1, hs,
                    [ss EXCEPT ![pos].relocs =
                        Append(@, Reloc(e, reloc, ss[pos], hole[1]))])

read_elf_relocs(e, hs, ss) ==
    IF ~e.has_relocs THEN Result("panic", "no relocations in .text", hs, ss)
    ELSE map_relocs(e, 1, hs, ss)

(***************************************************************************)
(* trim_trailing_jmp.  overflow_checks is the build profile: with checks   *)
(* (debug) an unsigned subtraction below zero panics, without (release) it *)
(* wraps modulo 2^64.                                                      *)
(***************************************************************************)
Last(s) == s[Len(s)]
Pop(s) == SubSeq(s, 1, Len(s) - 1)

\* outcome of trimming one stencil: "keep", "trim" or "panic"
trim_decision(stencil, overflow_checks) ==
    IF stencil.relocs = << >> THEN "keep"
    ELSE
      LET lastreloc == Last(stencil.relocs)
          codelen == stencil.size
      IN
      IF stencil.size < 4 /\ overflow_checks THEN "panic"
      \* wrapped, size - 4 is at least 2^64 - 4, above every offset < size
      ELSE IF stencil.size < 4 THEN "keep"
      ELSE IF lastreloc.offset # stencil.size - 4 THEN "keep"
      ELSE IF lastreloc.hole.name # "cnp_stencil_output" THEN "keep"
      \* codelen - 5 below zero: panics with checks, and wrapped it is a
      \* slice start above the slice end, which panics as well
      ELSE IF codelen < 5 THEN "panic"
      ELSE IF codelen > Len(stencil.code) THEN "panic"
      ELSE IF SubSeq(stencil.code, codelen - 5 + 1, codelen) = JmpPattern
           THEN "trim" ELSE "keep"

\* variant: the size follows the shortened code
trimmed_resized(stencil) ==
    [stencil EXCEPT !.code = SubSeq(@, 1, stencil.size - 5),
                    !.relocs = Pop(@),
                    !.size = @ - 5]

trimmed(stencil) ==
    [stencil EXCEPT !.code = SubSeq(@, 1, stencil.size - 5),
                    !.relocs = Pop(@)]

RECURSIVE trim_from(_, _, _)
trim_from(ss, i, overflow_checks) ==
    IF i > Len(ss) THEN [outcome |-> "running", error |-> "", stencils |-> ss]
    ELSE
      LET d == trim_decision(ss[i], overflow_checks) IN
      IF d = "panic"
      THEN [outcome |-> "panic", error |-> "trim_trailing_jmp", stencils |-> ss]
      ELSE IF d = "trim"
      THEN trim_from([ss EXCEPT ![i] = trimmed(@)], i + 1, overflow_checks)
      ELSE trim_from(ss, i + 1, overflow_checks)

trim_trailing_jmp(ss, overflow_checks) == trim_from(ss, 1, overflow_checks)

(***************************************************************************)
(* populate_stencil_holes.                                                 *)
(***************************************************************************)
\* variant: the last reference decides the position
push_if_missing_move_last(hs, reloc) ==
    Append(SelectSeq(hs, LAMBDA h : h.index # reloc.hole.index), reloc.hole)

\* body of the inner loop
push_if_missing(hs, reloc) ==
    LET missing_hole == ~\E j \in 1..Len(hs) : hs[j].index = reloc.hole.index
    IN IF missing_hole THEN Append(hs, reloc.hole) ELSE hs

RECURSIVE stencil_holes(_, _, _)
stencil_holes(relocs, k, hs) ==
    IF k > Len(relocs) THEN hs
    ELSE stencil_holes(relocs, k + 1, push_if_missing(hs, relocs[k]))

populate_stencil_holes(ss) ==
    [i \in 1..Len(ss) |->
        [ss[i] EXCEPT !.holes = stencil_holes(ss[i].relocs, 1, @)]]

(***************************************************************************)
(* main: the pipeline.                                                     *)
(***************************************************************************)
Start(inputs) ==
    /\ elf \in inputs
    /\ pc = "start"
    /\ outcome = "running"
    /\ error = ""
    /\ holes = << >>
    /\ stencils = << >>

Init == Start(PipelineInputs) \/ Start(ShortStencilInputs)

InitClassify == Start(ClassifyInputs) \/ Start(LoaderInputs)

Finish(r, next) ==
    /\ outcome' = r.outcome
    /\ error' = r.error
    /\ pc' = IF r.outcome = "running" THEN next ELSE "exit"

ReadElfSymbols ==
    /\ pc = "start"
    /\ LET r == read_elf_symbols(elf) IN
         /\ Finish(r, "classified")
         /\ holes' = r.holes
         /\ stencils' = r.stencils
    /\ UNCHANGED elf

ReadElfRelocs ==
    /\ pc = "classified"
    /\ LET r == read_elf_relocs(elf, holes, stencils) IN
         /\ Finish(r, "mapped")
         /\ holes' = r.holes
         /\ stencils' = r.stencils
    /\ UNCHANGED elf

TrimTrailingJmp ==
    /\ pc = "mapped"
    /\ \E overflow_checks \in BOOLEAN :
         LET r == trim_trailing_jmp(stencils, overflow_checks) IN
           /\ Finish(r, "trimmed")
           /\ stencils' = r.stencils
    /\ UNCHANGED << elf, holes >>

PopulateStencilHoles ==
    /\ pc = "trimmed"
    /\ stencils' = populate_stencil_holes(stencils)
    /\ pc' = "populated"
    /\ UNCHANGED << elf, outcome, error, holes >>

Next ==
    \/ ReadElfSymbols
    \/ ReadElfRelocs
    \/ TrimTrailingJmp
    \/ PopulateStencilHoles

Spec == Init /\ [][Next]_vars

SpecClassify == InitClassify /\ [][Next]_vars

TypeOK ==
    /\ pc \in {"start", "classified", "mapped", "trimmed", "populated", "exit"}
    /\ outcome \in {"running", "Err", "panic"}
    /\ (pc = "exit") = (outcome # "running")

(***************************************************************************)
(* Vocabulary of the properties.                                           *)
(***************************************************************************)
Range(s) == {a \in 0..(MaxOffset + DataLen) : s.address <= a /\ a < s.address + s.size}

Owners(ss, r_offset) == {i \in 1..Len(ss) : r_offset \in Range(ss[i])}

RelocSlots(ss) == UNION {{<<i, j>> : j \in 1..Len(ss[i].relocs)} : i \in 1..Len(ss)}

\* the Reloc at slot <<i, j>> stands for relocation record rec
Emitted(ss, i, j, rec) ==
    /\ ss[i].relocs[j].offset = rec.r_offset - ss[i].address
    /\ ss[i].relocs[j].hole.index = rec.r_sym

MappedRecords == {k \in 1..Len(elf.relocs) : Owners(stencils, elf.relocs[k].r_offset) # {}}

\* C1: read_elf never returns success while some relocation record of the
\* relocation section produced no Reloc in a stencil that contains it.
C1_NoSilentDrop ==
    pc = "mapped" =>
       /\ Cardinality(RelocSlots(stencils)) = Len(elf.relocs)
       /\ \A k \in 1..Len(elf.relocs) :
             \E i \in Owners(stencils, elf.relocs[k].r_offset) :
                \E j \in 1..Len(stencils[i].relocs) :
                   Emitted(stencils, i, j, elf.relocs[k])

\* C2: after relocation mapping every mapped record has its Reloc in exactly
\* one stencil, whose range contains the record's target, with offset
\* target - address, and every Reloc offset lies in [0, size).
C2_RelocContainment ==
    /\ \A i \in 1..Len(stencils) : \A j \in 1..Len(stencils[i].relocs) :
          /\ 0 <= stencils[i].relocs[j].offset
          /\ stencils[i].relocs[j].offset < stencils[i].size
    /\ pc = "mapped" =>
          /\ Cardinality(RelocSlots(stencils)) = Cardinality(MappedRecords)
          /\ \A k \in MappedRecords :
                \E i \in Owners(stencils, elf.relocs[k].r_offset) :
                   \E j \in 1..Len(stencils[i].relocs) :
                      Emitted(stencils, i, j, elf.relocs[k])
          /\ \A i \in 1..Len(stencils) : \A j \in 1..Len(stencils[i].relocs) :
                \E k \in MappedRecords :
                   /\ i \in Owners(stencils, elf.relocs[k].r_offset)
                   /\ Emitted(stencils, i, j, elf.relocs[k])

\* a record inside two stencil ranges was mapped, into a stencil that does
\* not start at address 0
C2_Witness ==
    /\ pc = "mapped"
    /\ \E k \in 1..Len(elf.relocs) :
          /\ Cardinality(Owners(stencils, elf.relocs[k].r_offset)) >= 2
          /\ \E i \in 1..Len(stencils) :
                /\ stencils[i].address > 0
                /\ \E j \in 1..Len(stencils[i].relocs) :
                      Emitted(stencils, i, j, elf.relocs[k])

BeginsWith(n, p) == \E k \in 0..Len(n) : SubSeq(n, 1, k) = p

\* the ordered rule list of the hole classification
ExpectedClass(n) ==
    CASE BeginsWith(n, "cnp_large_value_hole") -> <<"uint64_t", TRUE>>
      [] ~BeginsWith(n, "cnp_large_value_hole")
         /\ (BeginsWith(n, "cnp_small_value_hole") \/ BeginsWith(n, "cnp_near_func_hole"))
            -> <<"uint32_t", TRUE>>
      [] ~BeginsWith(n, "cnp_large_value_hole")
         /\ ~BeginsWith(n, "cnp_small_value_hole")
         /\ ~BeginsWith(n, "cnp_near_func_hole")
         /\ BeginsWith(n, "cnp_far_fun_hole") -> <<"void*", TRUE>>
      [] OTHER -> IF n = "cnp_stencil_output" THEN <<"uint32_t", TRUE>>
                  ELSE <<"void*", FALSE>>

NotGlobalFunc(i) ==
    ~(elf.syms[i].st_bind = STB_GLOBAL /\ elf.syms[i].st_type = STT_FUNC)

\* C3: every Hole carries the name of its symbol and the datatype and
\* internal flag the ordered rule list gives that name; a name with
\* cnp_stencil_output as a proper prefix is external.
C3_Classification ==
    /\ \A h \in 1..Len(holes) :
          /\ holes[h].index + 1 \in 1..Len(elf.syms)
          /\ NotGlobalFunc(holes[h].index + 1)
          /\ Some(holes[h].name) = elf.syms[holes[h].index + 1].name
          /\ <<holes[h].datatype, holes[h].internal>> = ExpectedClass(holes[h].name)
          /\ (BeginsWith(holes[h].name, "cnp_stencil_output")
                /\ holes[h].name # "cnp_stencil_output")
             => (holes[h].datatype = "void*" /\ ~holes[h].internal)
    /\ pc = "classified" =>
          \A i \in 1..Len(elf.syms) :
             NotGlobalFunc(i) => \E h \in 1..Len(holes) : holes[h].index = i - 1

C3_Witness ==
    /\ pc = "classified"
    /\ \E h \in 1..Len(holes) : holes[h].name = "cnp_stencil_output_x"
    /\ \E h \in 1..Len(holes) : holes[h].name = "cnp_stencil_output"

FuncIdx == {i \in 1..Len(elf.syms) : ~NotGlobalFunc(i)}

\* C9: after classification every symbol produced exactly one entity, a
\* Hole with its index unless it is a global function, then a Stencil; the
\* registry is in table order.
C9_SymbolPartition ==
    pc = "classified" =>
       /\ Len(holes) + Len(stencils) = Len(elf.syms)
       /\ \A i \in 1..Len(elf.syms) :
             Cardinality({h \in 1..Len(holes) : holes[h].index = i - 1})
                = IF NotGlobalFunc(i) THEN 1 ELSE 0
       /\ Len(stencils) = Cardinality(FuncIdx)
       /\ \A i \in FuncIdx :
             LET k == Cardinality({j \in FuncIdx : j <= i}) IN
                /\ Some(stencils[k].name) = elf.syms[i].name
                /\ stencils[k].address = elf.syms[i].st_value
                /\ stencils[k].size = elf.syms[i].st_size
       /\ \A a, b \in 1..Len(holes) : a < b => holes[a].index < holes[b].index

\* a local function symbol became a Hole next to a Stencil
C9_Witness ==
    /\ pc = "classified"
    /\ Len(stencils) = 1
    /\ \E i \in 1..Len(elf.syms) :
          /\ elf.syms[i].st_bind = STB_LOCAL /\ elf.syms[i].st_type = STT_FUNC
          /\ \E h \in 1..Len(holes) : holes[h].index = i - 1

\* the three conditions of the trailing-jump elision
TrimCond(s) ==
    /\ s.relocs # << >>
    /\ s.relocs[Len(s.relocs)].offset = s.size - 4
    /\ s.relocs[Len(s.relocs)].hole.name = "cnp_stencil_output"
    /\ Len(s.code) >= 5
    /\ \A b \in 1..5 : s.code[Len(s.code) - 5 + b] = JmpPattern[b]

\* C4: trim_trailing_jmp completes normally on every stencil list, removes
\* the last 5 code bytes and the last relocation exactly when the three
\* conditions hold, and otherwise leaves code and relocs as they were.
C4_TrimExact ==
    [][pc = "mapped" =>
         /\ pc' = "trimmed"
         /\ Len(stencils') = Len(stencils)
         /\ \A i \in 1..Len(stencils) :
               IF TrimCond(stencils[i])
               THEN /\ stencils'[i].code
                         = SubSeq(stencils[i].code, 1, Len(stencils[i].code) - 5)
                    /\ stencils'[i].relocs
                         = SubSeq(stencils[i].relocs, 1, Len(stencils[i].relocs) - 1)
               ELSE /\ stencils'[i].code = stencils[i].code
                    /\ stencils'[i].relocs = stencils[i].relocs]_vars

\* C5: on every stencil list that trim_trailing_jmp produced, a second
\* application completes normally and changes nothing.
C5_TrimIdempotent ==
    pc = "trimmed" =>
       \A overflow_checks \in BOOLEAN :
          LET again == trim_trailing_jmp(stencils, overflow_checks) IN
             /\ again.outcome = "running"
             /\ again.stencils = stencils

HoleIndices(seq) == {seq[j].index : j \in 1..Len(seq)}

FirstRef(relocs, index) ==
    CHOOSE j \in 1..Len(relocs) :
       /\ relocs[j].hole.index = index
       /\ \A m \in 1..(j - 1) : relocs[m].hole.index # index

\* C6: after populate_stencil_holes the holes of a stencil have pairwise
\* distinct indices, are exactly the Holes its relocs reference, and are
\* ordered by first reference.
C6_HoleList ==
    pc = "populated" =>
       \A i \in 1..Len(stencils) :
          LET s == stencils[i] IN
             /\ \A a, b \in 1..Len(s.holes) :
                   a # b => s.holes[a].index # s.holes[b].index
             /\ HoleIndices(s.holes) = {s.relocs[j].hole.index : j \in 1..Len(s.relocs)}
             /\ \A a \in 1..Len(s.holes) : \E j \in 1..Len(s.relocs) : s.relocs[j].hole = s.holes[a]
             /\ \A a, b \in 1..Len(s.holes) :
                   a < b => FirstRef(s.relocs, s.holes[a].index)
                               < FirstRef(s.relocs, s.holes[b].index)

\* a stencil whose first Hole is referenced again after a second Hole
C6_Witness ==
    /\ pc = "populated"
    /\ \E i \in 1..Len(stencils) :
          /\ Len(stencils[i].relocs) = 3
          /\ Len(stencils[i].holes) = 2
          /\ stencils[i].relocs[3].hole = stencils[i].relocs[1].hole

\* C7: a mapped relocation whose symbol index is the index of no Hole ends
\* read_elf in the UnresolvedHoleReference error, returned to the caller.
C7_UnresolvedReported ==
    [][(/\ pc = "classified"
        /\ elf.has_relocs
        /\ \E k \in MappedRecords :
              \A h \in 1..Len(holes) : holes[h].index # elf.relocs[k].r_sym)
       => (outcome' = "Err" /\ error' = "UnresolvedHoleReference")]_vars

InBuffer(i) ==
    elf.sh_offset + elf.syms[i].st_value + elf.syms[i].st_size <= Len(elf.data)

\* symbol i is the first symbol the classification cannot pass, a global
\* function whose code range leaves the buffer
FirstOutOfRange(i) ==
    /\ ~NotGlobalFunc(i) /\ elf.syms[i].name # None /\ ~InBuffer(i)
    /\ \A j \in 1..(i - 1) :
          elf.syms[j].name # None /\ (NotGlobalFunc(j) \/ InBuffer(j))

\* C8: a global function whose code range is not inside the buffer ends
\* classification in the OutOfRangeCode error; a range inside the buffer
\* gives a stencil whose code is exactly those bytes.
C8_OutOfRangeReported ==
    [][(pc = "start" /\ elf.parse = "elf" /\ elf.has_text) =>
         /\ (\E i \in 1..Len(elf.syms) : FirstOutOfRange(i))
               => (outcome' = "Err" /\ error' = "OutOfRangeCode")
         /\ pc' = "classified" =>
               \A i \in FuncIdx :
                  LET k == Cardinality({j \in FuncIdx : j <= i})
                      start == elf.sh_offset + elf.syms[i].st_value
                  IN stencils'[k].code
                        = [b \in 1..elf.syms[i].st_size |-> elf.data[start + b]]]_vars

IsPrefix(p, q) == Len(p) <= Len(q) /\ \A j \in 1..Len(p) : p[j] = q[j]

\* C10: trim_trailing_jmp changes at most code (to a prefix) and relocs (by
\* dropping the last), populate_stencil_holes only appends to holes; name,
\* address, size, the number and order of stencils and the holes registry
\* stay as they are.
C10_Frame ==
    [][/\ pc = "mapped" =>
            /\ holes' = holes
            /\ Len(stencils') = Len(stencils)
            /\ \A i \in 1..Len(stencils) :
                  /\ stencils'[i].name = stencils[i].name
                  /\ stencils'[i].address = stencils[i].address
                  /\ stencils'[i].size = stencils[i].size
                  /\ stencils'[i].holes = stencils[i].holes
                  /\ IsPrefix(stencils'[i].code, stencils[i].code)
                  /\ \/ stencils'[i].relocs = stencils[i].relocs
                     \/ /\ stencils[i].relocs # << >>
                        /\ stencils'[i].relocs
                             = SubSeq(stencils[i].relocs, 1, Len(stencils[i].relocs) - 1)
       /\ pc = "trimmed" =>
            /\ holes' = holes
            /\ Len(stencils') = Len(stencils)
            /\ \A i \in 1..Len(stencils) :
                  /\ stencils'[i].name = stencils[i].name
                  /\ stencils'[i].address = stencils[i].address
                  /\ stencils'[i].size = stencils[i].size
                  /\ stencils'[i].code = stencils[i].code
                  /\ stencils'[i].relocs = stencils[i].relocs
                  /\ IsPrefix(stencils[i].holes, stencils'[i].holes)]_vars

\* both transforms acted on a stencil: it lost its trailing jump and the
\* relocation of the jump, and the Hole of a remaining relocation was listed
C10_Witness ==
    /\ pc = "populated"
    /\ \E i \in 1..Len(stencils) :
          /\ Len(stencils[i].code) = stencils[i].size - 5
          /\ stencils[i].relocs # << >>
          /\ stencils[i].holes # << >>

====
